---- MODULE Spec2Model ----
(***************************************************************************)
(* Team-Tasks-Dashboard: the client-side synchronization hooks.            *)
(*                                                                         *)
(* One hook instance (useTasksOptimized, useProjectsOptimized,             *)
(* useTasksRealtime or useProjectsRealtime) is mounted for a signed-in     *)
(* user.  It owns an in-memory collection, issues remote requests to the   *)
(* backend table, and ingests the table's realtime change events.          *)
(*                                                                         *)
(* A remote request is one record of `calls`: it is "sent" when the hook   *)
(* awaits it, the backend serves it (ServerHandle) and the hook's          *)
(* continuation after the await runs when it settles (Settle).             *)
(* React state setters with an updater, setTasks(prev => ...), act on the  *)
(* latest state, which is what the variables hold.                         *)
(***************************************************************************)
EXTENDS Integers, Sequences, FiniteSets, TLC

VARIABLES
    hook,        \* which hook is mounted: "TO", "PO", "TR", "PR"
    tasks,       \* useState<Task[]> / useState<Project[]>: the collection
    loading,     \* useState(true)
    error,       \* useState<string | null>
    userRole,    \* useState<'admin' | 'member' | null>
    userCache,   \* useState<{role, timestamp} | null>   (optimized hooks)
    tasksCache,  \* useState<{data, timestamp} | null>   (useTasksOptimized)
    calls,       \* remote requests awaited by the hook
    db,          \* the backend table, newest row first
    user,        \* useAuth().user: the session identity, or None when signed out
    users,       \* the users table: the role recorded for each identity, or None
    events,      \* realtime change events not yet delivered, in order
    nextId,      \* next id the backend assigns
    now,         \* Date.now()
    nOps,        \* operations started so far
    last,        \* what the last step did (history, for stating properties)
    profile,       \* useUserProfile: profile (<<>> for null), loading, error
    profileCalls,  \* useUserProfile: fetchProfile runs awaiting the users table
    access,        \* the last permission query and what it returned
    notifications, \* NotificationProvider: useState<Notification[]>
    noteSeq,       \* notifications created so far (the fresh part of their ids)
    provisioned,   \* the role each call site wrote for an identity without a row
    channel        \* the hook's realtime subscription: mounted, channels open

\* The synchronization hook with its table and channel
hookVars == <<hook, tasks, loading, error, userRole, userCache, tasksCache, calls,
              db, events, nextId, now, last, channel>>

\* The profile hook and the permission evaluator, the notification list, the
\* role provisioning of the call sites
authVars == <<profile, profileCalls, access>>
sideVars == <<authVars, notifications, noteSeq, provisioned>>

vars == <<hookVars, users, nOps, user, sideVars, channel>>

----------------------------------------------------------------------------
(* Bounds *)

MaxOps == 2
MaxNow == 1
MaxNotes == 52
MaxEdits == 1

(* Program constant: the 5-minute cache lifetime, in milliseconds *)
CacheTTL == 300000

(* Program constant: the notification list keeps the 50 most recent records *)
MaxKept == 50

----------------------------------------------------------------------------
(* Values *)

Hooks == {"TO", "PO", "TR", "PR"}
Optimized == {"TO", "PO"}
TaskHooks == {"TO", "TR"}

User == "u1"
OtherUser == "u2"
None == "none"
\* JavaScript's undefined, which is not null
Undefined == "undefined"
Identities == {User, OtherUser}

SrvId(n) == [k |-> "srv", n |-> n]
TempId(t) == [k |-> "temp", n |-> t]
AbsentId == SrvId(0)

\* A timestamp written by the database or by another client, before every
\* reading of the hook's clock: the hook never compares the two
SrvTime == -1

Row(id, status, assignee, project, creator, upd, att) ==
    [id |-> id, status |-> status, assigned_to |-> assignee, project_id |-> project,
     created_by |-> creator, updated_at |-> upd, attachment_url |-> att]

Ids(s) == {s[i].id : i \in DOMAIN s}
Has(s, id) == id \in Ids(s)
Count(s, id) == Cardinality({i \in DOMAIN s : s[i].id = id})
NoDup(s) == \A i, j \in DOMAIN s : s[i].id = s[j].id => i = j

\* tasks.find(t => t.id === id): the first match
Find(s, id) == s[CHOOSE i \in DOMAIN s : s[i].id = id /\ \A j \in 1..(i-1) : s[j].id # id]

\* prev.filter(t => t.id !== id)
FilterOut(s, id) == SelectSeq(s, LAMBDA e : e.id # id)

\* prev.map(t => t.id === id ? r : t)
ReplaceId(s, id, r) == [i \in DOMAIN s |-> IF s[i].id = id THEN r ELSE s[i]]

\* { ...task, ...updates }
Merge(e, upd) == [f \in DOMAIN e |-> IF f \in DOMAIN upd THEN upd[f] ELSE e[f]]

\* .eq('project_id', projectId), applied only when a projectId is given
ByProject(s, p) == IF p = None THEN s ELSE SelectSeq(s, LAMBDA e : e.project_id = p)

----------------------------------------------------------------------------
(* The hook's React state as one record, so that a handler is a function   *)
(* from state to state and the effects it triggers can be chained.         *)

Cur == [tasks |-> tasks, loading |-> loading, error |-> error, userRole |-> userRole,
        userCache |-> userCache, tasksCache |-> tasksCache, calls |-> calls, user |-> user]

Commit(s) ==
    /\ tasks' = s.tasks
    /\ loading' = s.loading
    /\ error' = s.error
    /\ userRole' = s.userRole
    /\ userCache' = s.userCache
    /\ tasksCache' = s.tasksCache
    /\ calls' = s.calls

Starts(s) ==
    /\ tasks = s.tasks
    /\ loading = s.loading
    /\ error = s.error
    /\ userRole = s.userRole
    /\ userCache = s.userCache
    /\ tasksCache = s.tasksCache
    /\ calls = s.calls

\* userCache && (now - userCache.timestamp) < 300000
Fresh(cache, t) == cache # <<>> /\ (t - cache[1].timestamp) < CacheTTL

CallIds == 1..(MaxOps + 4)
FreeCall(s) == CHOOSE n \in CallIds :
                   /\ n \notin {c.n : c \in s.calls}
                   /\ \A m \in 1..(n-1) : m \in {c.n : c \in s.calls}

\* A request the hook awaits.  sent: the record given to insert()/update();
\* opt: the optimistic entity of a create; original: the rollback snapshot.
\* preLen, idx: the collection's length and the entity's index when the call
\* was made (history, read by no handler).
Call(n, op, id, sent, opt, original, project, hadUserCache, ts) ==
    [n |-> n, op |-> op, id |-> id, sent |-> sent, opt |-> opt, original |-> original,
     project |-> project, hadUserCache |-> hadUserCache, ts |-> ts,
     stage |-> "sent", data |-> <<>>, preLen |-> 0, idx |-> 0, user |-> None]

FetchCall(s, project, t) ==
    Call(FreeCall(s), "fetch", AbsentId, <<>>, <<>>, <<>>, project, s.userCache # <<>>, t)

RoleCall(s, t) ==
    Call(FreeCall(s), "role", AbsentId, <<>>, <<>>, <<>>, None, FALSE, 0)

\* The callback's closure holds the identity of the render that created it
AddCall(s, c) == [s EXCEPT !.calls = @ \cup {[c EXCEPT !.user = s.user]}]

\* useTasksOptimized.fetchTasksData up to its first await
StartFetchTO(s, project, t) ==
    LET s1 == IF Fresh(s.userCache, t)
                 THEN [s EXCEPT !.userRole = s.userCache[1].role]
                 ELSE s
    IN  IF Fresh(s1.tasksCache, t) /\ project = None
           THEN [s1 EXCEPT !.tasks = s1.tasksCache[1].data, !.loading = FALSE]
           ELSE AddCall([s1 EXCEPT !.loading = TRUE, !.error = None],
                        FetchCall(s1, project, t))

\* useProjectsOptimized.fetchUserData up to its await
StartFetchPO(s, t) ==
    LET s1 == IF Fresh(s.userCache, t)
                 THEN [s EXCEPT !.userRole = s.userCache[1].role]
                 ELSE s
    IN  AddCall([s1 EXCEPT !.loading = TRUE, !.error = None], FetchCall(s1, None, t))

\* useTasksRealtime.fetchTasks / useProjectsRealtime.fetchProjects up to the await
StartFetchR(s, project, t) ==
    AddCall([s EXCEPT !.loading = TRUE, !.error = None], FetchCall(s, project, t))

\* useTasksRealtime.fetchUserRole / useProjectsRealtime.fetchUserRole up to the await
StartRole(s, t) == AddCall(s, RoleCall(s, t))

\* if (!user) { setTasks([]); setUserRole(null); setLoading(false); return; }
\* (the realtime hooks' fetch leaves the role to their mount effect)
StartFetchNoUser(h, s) ==
    [s EXCEPT !.tasks = <<>>, !.loading = FALSE,
              !.userRole = IF h \in Optimized THEN None ELSE @]

StartFetch(h, s, project, t) ==
    CASE s.user = None -> StartFetchNoUser(h, s)
      [] h = "TO" -> StartFetchTO(s, project, t)
      [] h = "PO" -> StartFetchPO(s, t)
      [] OTHER    -> StartFetchR(s, IF h = "TR" THEN project ELSE None, t)

\* The "Initial fetch" effect re-runs whenever its dependency, the fetch
\* callback, is re-created: in the optimized hooks this is whenever userCache
\* (both) or tasksCache (tasks) is given a new value.
Effects(h, s, cacheChanged, t) ==
    IF h \in Optimized /\ cacheChanged THEN StartFetch(h, s, None, t) ELSE s

\* The subscription effect, useEffect(..., [user]).  open: the channels
\* subscribed and not removed; mine: the channel held by the cleanup of the
\* effect's last run (none when that run returned at `if (!user) return`);
\* next: the next channel object
NoChannel == [mounted |-> FALSE, open |-> {}, mine |-> <<>>, next |-> 1]

\* return () => { supabase.removeChannel(channel); }
Cleanup(ch) == [ch EXCEPT !.open = @ \ {ch.mine[i] : i \in DOMAIN ch.mine}, !.mine = <<>>]

\* if (!user) return; const channel = supabase.channel(...).on(...).subscribe()
Subscribe(ch, id) ==
    IF id = None THEN ch
    ELSE [ch EXCEPT !.open = @ \cup {ch.next}, !.mine = <<ch.next>>, !.next = @ + 1]

\* An effect whose previous cleanup is not run
SubscriptionEffectNoCleanup(ch, id) == Subscribe(ch, id)

\* A dependency changed: the previous run's cleanup, then the effect
SubscriptionEffect(ch, id) == Subscribe(Cleanup(ch), id)

\* useState initial values
Mounted == [tasks |-> <<>>, loading |-> TRUE, error |-> None, userRole |-> None,
            userCache |-> <<>>, tasksCache |-> <<>>, calls |-> {}, user |-> User]

\* The mount effects with a signed-in user
MountEffects(h) ==
    IF h \in Optimized
       THEN StartFetch(h, Mounted, None, 0)
       ELSE StartFetch(h, StartRole(Mounted, 0), None, 0)

\* The record of a step: the operation, the collection before it, the id and
\* rows it was about, how the call ended for its caller, whether a remote
\* request was issued, and the call's preLen and idx.
Step(op, kind, pre, id, rows, outcome, why, sent, preLen, idx) ==
    [op |-> op, kind |-> kind, pre |-> pre, id |-> id, rows |-> rows, outcome |-> outcome,
     why |-> why, sent |-> sent, preLen |-> preLen, idx |-> idx]

TaskRow1 == Row(SrvId(1), "todo", User, "p1", OtherUser, SrvTime, None)
TaskRow2 == Row(SrvId(2), "todo", OtherUser, "p2", User, SrvTime, None)
ProjectRow1 == Row(SrvId(1), "todo", None, None, OtherUser, SrvTime, None)
ProjectRow2 == Row(SrvId(2), "todo", None, None, User, SrvTime, None)

InitDb(h) == IF h \in TaskHooks THEN <<TaskRow2, TaskRow1>>
                                 ELSE <<ProjectRow2, ProjectRow1>>

Roles == {"admin", "member"}

\* The call sites that create a users row: the four hooks and useUserProfile
Sites == Hooks \cup {"UP"}

NoAccess == [fn |-> None]

\* The other components before anything was asked of them
SideIdle ==
    /\ profile = [data |-> <<>>, loading |-> TRUE, error |-> None]
    /\ profileCalls = {}
    /\ access = NoAccess
    /\ notifications = <<>>
    /\ noteSeq = 0
    /\ provisioned = [site \in Sites |-> None]

\* A hook of hs is mounted for a user whose users row holds a role of rs
\* (None: the user has no users row yet)
InitFor(hs, rs) ==
    /\ hook \in hs
    /\ Starts(MountEffects(hook))
    /\ db = InitDb(hook)
    /\ user = User
    /\ users \in {f \in [Identities -> Roles] : f[User] \in rs /\ f[OtherUser] # f[User]}
    /\ SideIdle
    /\ channel = SubscriptionEffect([NoChannel EXCEPT !.mounted = TRUE], User)
    /\ events = <<>>
    /\ nextId = 3
    /\ now = 0
    /\ nOps = 0
    /\ last = Step("mount", None, <<>>, AbsentId, <<>>, None, None, FALSE, 0, 0)

----------------------------------------------------------------------------
(* Settling a fetch: the code after the await(s) of the fetch callbacks.   *)
(* A handler returns the new hook state, the users table and whether a     *)
(* cache was given a new value.                                            *)

Out(s, u, changed) == [cs |-> s, users |-> u, changed |-> changed]

DropCall(s, c) == [s EXCEPT !.calls = @ \ {c}]

\* The role written for a user that has no users row yet
ProvisionRole(h) == IF h = "TO" THEN "member" ELSE "admin"

\* Optimized hooks: "Fetch user role if not cached".  selErr: the select
\* failed with a code other than PGRST116; insErr: the insert failed.
ResolveRoleOpt(h, s, u, c, selErr, insErr) ==
    IF c.hadUserCache \/ selErr THEN Out(s, u, FALSE)
    ELSE IF u = None
         THEN IF insErr THEN Out(s, u, FALSE)
              ELSE Out([s EXCEPT !.userRole = ProvisionRole(h),
                                 !.userCache = <<[role |-> ProvisionRole(h),
                                                  timestamp |-> c.ts]>>],
                       ProvisionRole(h), TRUE)
         ELSE Out([s EXCEPT !.userRole = u,
                            !.userCache = <<[role |-> u, timestamp |-> c.ts]>>],
                  u, TRUE)

\* useTasksOptimized.fetchTasksData after the tasks query
SettleFetchTO(s, u, c, selErr, insErr) ==
    IF c.stage = "err"
       THEN Out([s EXCEPT !.error = "fetch", !.loading = FALSE], u, FALSE)
       ELSE LET r == ResolveRoleOpt("TO", s, u, c, selErr, insErr)
            IN  Out([r.cs EXCEPT !.tasks = c.data,
                                 !.tasksCache = IF c.project = None
                                                   THEN <<[data |-> c.data,
                                                           timestamp |-> c.ts]>>
                                                   ELSE @,
                                 !.loading = FALSE],
                    r.users, r.changed \/ c.project = None)

\* useProjectsOptimized.fetchUserData after Promise.all
SettleFetchPO(s, u, c, selErr, insErr) ==
    LET r == ResolveRoleOpt("PO", s, u, c, selErr, insErr)
    IN  IF c.stage = "err"
           THEN Out([r.cs EXCEPT !.error = "fetch", !.loading = FALSE], r.users, r.changed)
           ELSE Out([r.cs EXCEPT !.tasks = c.data, !.loading = FALSE], r.users, r.changed)

\* useTasksRealtime.fetchTasks / useProjectsRealtime.fetchProjects after the query
SettleFetchR(s, u, c) ==
    IF c.stage = "err"
       THEN Out([s EXCEPT !.error = "fetch", !.tasks = <<>>, !.loading = FALSE], u, FALSE)
       ELSE Out([s EXCEPT !.tasks = c.data, !.loading = FALSE], u, FALSE)

SettleFetch(h, s, u, c, selErr, insErr) ==
    CASE h = "TO" -> SettleFetchTO(s, u, c, selErr, insErr)
      [] h = "PO" -> SettleFetchPO(s, u, c, selErr, insErr)
      [] OTHER    -> SettleFetchR(s, u, c)

\* useTasksRealtime.fetchUserRole / useProjectsRealtime.fetchUserRole after the select
SettleRole(h, s, u, c, insErr) ==
    IF c.stage = "err" THEN Out([s EXCEPT !.error = "permissions"], u, FALSE)
    ELSE IF u = None
         THEN IF insErr THEN Out([s EXCEPT !.error = "profile"], u, FALSE)
              ELSE Out([s EXCEPT !.userRole = ProvisionRole(h)], ProvisionRole(h), FALSE)
         ELSE Out([s EXCEPT !.userRole = u], u, FALSE)

\* The settling request reached the insert of a users row and the insert failed
ProvisionFailed(h, u, c, selErr, insErr) ==
    /\ u = None
    /\ insErr
    /\ IF c.op = "role" THEN c.stage = "ok"
       ELSE /\ h \in Optimized
            /\ ~c.hadUserCache
            /\ ~selErr
            /\ h = "TO" => c.stage = "ok"

----------------------------------------------------------------------------
(* The realtime subscription callback *)

Event(type, row) == [type |-> type, row |-> row]

OnInsert(prev, row) == <<row>> \o prev
\* An UPDATE callback that adds the entity when it is not in the collection
OnUpdateUpsert(prev, row) ==
    IF Has(prev, row.id) THEN ReplaceId(prev, row.id, row) ELSE <<row>> \o prev

OnUpdate(prev, row) == ReplaceId(prev, row.id, row)
\* A DELETE callback with its filter inverted
OnDeleteInverted(prev, row) == SelectSeq(prev, LAMBDA e : e.id = row.id)

OnDelete(prev, row) == FilterOut(prev, row.id)

OnEvent(prev, ev) ==
    CASE ev.type = "INSERT" -> OnInsert(prev, ev.row)
      [] ev.type = "UPDATE" -> OnUpdate(prev, ev.row)
      [] OTHER              -> OnDelete(prev, ev.row)

\* The callback as a whole: useTasksOptimized also invalidates its cache
Ingest(h, s, ev) ==
    Out([s EXCEPT !.tasks = OnEvent(@, ev),
                  !.tasksCache = IF h = "TO" THEN <<>> ELSE @],
        None, h = "TO" /\ s.tasksCache # <<>>)

----------------------------------------------------------------------------
(* The backend *)

\* Column defaults of a new row
DefaultRow(id, t) == Row(id, "todo", None, None, None, t, None)

ServerInsert(sent) ==
    LET row == Merge(DefaultRow(SrvId(nextId), SrvTime), sent)
    IN  /\ db' = <<row>> \o db
        /\ events' = Append(events, Event("INSERT", row))
        /\ nextId' = nextId + 1

ServerUpdate(id, sent) ==
    LET row == Merge(Find(db, id), sent)
    IN  /\ db' = ReplaceId(db, id, row)
        /\ events' = Append(events, Event("UPDATE", row))
        /\ nextId' = nextId

ServerDelete(id) ==
    /\ db' = FilterOut(db, id)
    /\ events' = IF Has(db, id) THEN Append(events, Event("DELETE", Find(db, id)))
                                ELSE events
    /\ nextId' = nextId

----------------------------------------------------------------------------
(* Mutations: the part of each callback before its await.  A handler       *)
(* returns the new hook state and how the call stands: "pending" with the  *)
(* request issued, or "rejected" (thrown before any request) and why.      *)

Res(s, outcome, why, rows) == [cs |-> s, outcome |-> outcome, why |-> why, rows |-> rows]

With(r, f, v) == [x \in DOMAIN r \cup {f} |-> IF x = f THEN v ELSE r[x]]
Only(r, fs) == [x \in DOMAIN r \cap fs |-> r[x]]

IndexOf(s, id) == IF Has(s, id)
                     THEN CHOOSE i \in DOMAIN s : s[i].id = id /\ \A j \in 1..(i-1) : s[j].id # id
                     ELSE 0

\* s0: the state the call found, s1: the state it leaves
Pending(s0, s1, c0, rows) ==
    LET c == [c0 EXCEPT !.preLen = Len(s0.tasks), !.idx = IndexOf(s0.tasks, c0.id)]
    IN  Res(AddCall(s1, c), "pending", None, rows)

\* canEditTask(task)
CanEditTask(role, task, uid) ==
    role = "admin" \/ (role = "member" /\ uid # None /\ task.assigned_to = uid)

\* The columns each create passes to insert()
TaskInsertCols == {"status", "assigned_to", "project_id", "created_by"}
ProjectInsertCols == {"status", "created_by"}

\* A create that keeps the created_by of its payload
CreateOptTrustsPayload(h, s, payload, t) ==
    IF s.user = None \/ s.userRole # "admin" THEN Res(s, "rejected", "denied", <<>>)
    ELSE LET opt == Row(TempId(t), payload.status, payload.assigned_to, payload.project_id,
                        payload.created_by, t, payload.attachment_url)
             cols == IF h = "TO" THEN TaskInsertCols ELSE ProjectInsertCols
             sent == Only(payload, cols)
             s1 == [s EXCEPT !.tasks = <<opt>> \o @]
         IN  Pending(s, s1, Call(FreeCall(s), "create", opt.id, <<sent>>, <<opt>>, <<>>,
                              None, FALSE, 0),
                     <<opt>>)

\* useTasksOptimized.createTask / useProjectsOptimized.createProject
CreateOpt(h, s, payload, t) ==
    IF s.user = None \/ s.userRole # "admin" THEN Res(s, "rejected", "denied", <<>>)
    ELSE LET opt == Row(TempId(t), payload.status, payload.assigned_to, payload.project_id,
                        s.user, t, payload.attachment_url)
             cols == IF h = "TO" THEN TaskInsertCols ELSE ProjectInsertCols
             sent == With(Only(payload, cols), "created_by", s.user)
             s1 == [s EXCEPT !.tasks = <<opt>> \o @]
         IN  Pending(s, s1, Call(FreeCall(s), "create", opt.id, <<sent>>, <<opt>>, <<>>,
                              None, FALSE, 0),
                     <<opt>>)

\* useTasksRealtime.createTask / useProjectsRealtime.createProject
CreateR(h, s, payload, t) ==
    IF s.user = None \/ s.userRole # "admin" THEN Res(s, "rejected", "denied", <<>>)
    ELSE LET cols == IF h = "TR" THEN TaskInsertCols ELSE ProjectInsertCols
             sent == With(Only(payload, cols), "created_by", s.user)
         IN  Pending(s, s, Call(FreeCall(s), "create", AbsentId, <<sent>>, <<>>, <<>>,
                             None, FALSE, 0),
                     <<>>)

\* An updateTask that refuses to start while an update of the same id is pending
UpdateTOSerialized(s, id, updates, t) ==
    IF ~Has(s.tasks, id) THEN Res(s, "rejected", "notfound", <<>>)
    ELSE LET taskToUpdate == Find(s.tasks, id)
         IN  IF \/ ~CanEditTask(s.userRole, taskToUpdate, s.user)
                \/ \E c \in s.calls : c.op = "update" /\ c.id = id
                THEN Res(s, "rejected", "denied", <<>>)
                ELSE LET sent == With(updates, "updated_at", t)
                         s1 == [s EXCEPT !.tasks =
                                   [i \in DOMAIN @ |-> IF @[i].id = id
                                                          THEN Merge(@[i], sent)
                                                          ELSE @[i]]]
                     IN  Pending(s, s1, Call(FreeCall(s), "update", id, <<sent>>, <<>>,
                                          <<taskToUpdate>>, None, FALSE, 0),
                                 <<taskToUpdate>>)

\* useTasksOptimized.updateTask
UpdateTO(s, id, updates, t) ==
    IF ~Has(s.tasks, id) THEN Res(s, "rejected", "notfound", <<>>)
    ELSE LET taskToUpdate == Find(s.tasks, id)
         IN  IF ~CanEditTask(s.userRole, taskToUpdate, s.user)
                THEN Res(s, "rejected", "denied", <<>>)
                ELSE LET sent == With(updates, "updated_at", t)
                         s1 == [s EXCEPT !.tasks =
                                   [i \in DOMAIN @ |-> IF @[i].id = id
                                                          THEN Merge(@[i], sent)
                                                          ELSE @[i]]]
                     IN  Pending(s, s1, Call(FreeCall(s), "update", id, <<sent>>, <<>>,
                                          <<taskToUpdate>>, None, FALSE, 0),
                                 <<taskToUpdate>>)

\* useProjectsOptimized.updateProject
UpdatePO(s, id, updates, t) ==
    Pending(s, s, Call(FreeCall(s), "update", id, <<With(updates, "updated_at", t)>>, <<>>,
                    <<>>, None, FALSE, 0),
            <<>>)

\* if (updates.status) ...; if (updates.attachment_url !== undefined) ...
MemberFields(updates) ==
    {f \in DOMAIN updates \cap {"status"} : updates[f] \notin {None, Undefined, ""}}
    \cup {f \in DOMAIN updates \cap {"attachment_url"} : updates[f] # Undefined}

\* An updateTask that sends the caller's updates as they are
UpdateTRUnfiltered(s, id, updates, t) ==
    IF ~Has(s.tasks, id) \/ ~CanEditTask(s.userRole, Find(s.tasks, id), s.user)
       THEN Res(s, "rejected", "denied", <<>>)
       ELSE Pending(s, s, Call(FreeCall(s), "update", id, <<With(updates, "updated_at", t)>>,
                            <<>>, <<>>, None, FALSE, 0),
                    <<>>)

\* useTasksRealtime.updateTask
UpdateTR(s, id, updates, t) ==
    IF ~Has(s.tasks, id) \/ ~CanEditTask(s.userRole, Find(s.tasks, id), s.user)
       THEN Res(s, "rejected", "denied", <<>>)
       ELSE LET allowedUpdates ==
                    IF s.userRole = "admin"
                       THEN Only(updates, DOMAIN updates \ {"attachment_url"})
                       ELSE Only(updates, MemberFields(updates))
            IN  Pending(s, s, Call(FreeCall(s), "update", id,
                                <<With(allowedUpdates, "updated_at", t)>>, <<>>, <<>>,
                                None, FALSE, 0),
                        <<>>)

\* useProjectsRealtime.updateProject
UpdatePR(s, id, updates, t) ==
    IF s.userRole # "admin" THEN Res(s, "rejected", "denied", <<>>)
    ELSE Pending(s, s, Call(FreeCall(s), "update", id, <<With(updates, "updated_at", t)>>,
                         <<>>, <<>>, None, FALSE, 0),
                 <<>>)

\* useTasksOptimized.deleteTask
DeleteTO(s, id, t) ==
    IF s.userRole # "admin" THEN Res(s, "rejected", "denied", <<>>)
    ELSE IF ~Has(s.tasks, id) THEN Res(s, "rejected", "notfound", <<>>)
    ELSE LET taskToDelete == Find(s.tasks, id)
             c == Call(FreeCall(s), "delete", id, <<>>, <<>>, <<taskToDelete>>,
                       None, FALSE, 0)
             r == Pending(s, s, c, <<taskToDelete>>)
         IN  [r EXCEPT !.cs.tasks = FilterOut(@, id)]

\* useProjectsOptimized.deleteProject
DeletePO(s, id, t) ==
    Pending(s, s, Call(FreeCall(s), "delete", id, <<>>, <<>>, <<>>, None, FALSE, 0), <<>>)

\* useTasksRealtime.deleteTask / useProjectsRealtime.deleteProject
DeleteR(s, id, t) ==
    IF s.userRole # "admin" THEN Res(s, "rejected", "denied", <<>>)
    ELSE Pending(s, s, Call(FreeCall(s), "delete", id, <<>>, <<>>, <<>>, None, FALSE, 0), <<>>)

CreateCall(h, s, payload, t) ==
    IF h \in Optimized THEN CreateOpt(h, s, payload, t) ELSE CreateR(h, s, payload, t)

UpdateCall(h, s, id, updates, t) ==
    CASE h = "TO" -> UpdateTO(s, id, updates, t)
      [] h = "PO" -> UpdatePO(s, id, updates, t)
      [] h = "TR" -> UpdateTR(s, id, updates, t)
      [] OTHER    -> UpdatePR(s, id, updates, t)

DeleteCall(h, s, id, t) ==
    CASE h = "TO" -> DeleteTO(s, id, t)
      [] h = "PO" -> DeletePO(s, id, t)
      [] OTHER    -> DeleteR(s, id, t)

----------------------------------------------------------------------------
(* Mutations: the part of each callback after its await *)

Done(s, changed, outcome, rows) ==
    [cs |-> s, changed |-> changed, outcome |-> outcome, rows |-> rows]

\* A create whose catch block rethrows without removing the optimistic entity
CreateOptSettledNoRollback(h, s, c) ==
    IF c.stage = "ok"
       THEN Done([s EXCEPT !.tasks = ReplaceId(@, c.opt[1].id, c.data[1]),
                           !.tasksCache = IF h = "TO" THEN <<>> ELSE @],
                 h = "TO" /\ s.tasksCache # <<>>, "resolved", c.data)
       ELSE Done(s, FALSE, "rejected", c.opt)

\* useTasksOptimized.createTask / useProjectsOptimized.createProject
CreateOptSettled(h, s, c) ==
    IF c.stage = "ok"
       THEN Done([s EXCEPT !.tasks = ReplaceId(@, c.opt[1].id, c.data[1]),
                           !.tasksCache = IF h = "TO" THEN <<>> ELSE @],
                 h = "TO" /\ s.tasksCache # <<>>, "resolved", c.data)
       ELSE Done([s EXCEPT !.tasks = FilterOut(@, c.opt[1].id)], FALSE, "rejected", c.opt)

\* An updateTask whose catch block rethrows without restoring the snapshot
UpdateTOSettledNoRollback(s, c) ==
    IF c.stage = "ok"
       THEN Done([s EXCEPT !.tasks = ReplaceId(@, c.id, c.data[1]), !.tasksCache = <<>>],
                 s.tasksCache # <<>>, "resolved", c.data)
       ELSE Done(s, FALSE, "rejected", c.original)

\* useTasksOptimized.updateTask
UpdateTOSettled(s, c) ==
    IF c.stage = "ok"
       THEN Done([s EXCEPT !.tasks = ReplaceId(@, c.id, c.data[1]), !.tasksCache = <<>>],
                 s.tasksCache # <<>>, "resolved", c.data)
       ELSE Done([s EXCEPT !.tasks = ReplaceId(@, c.id, c.original[1])],
                 FALSE, "rejected", c.original)

\* useTasksOptimized.deleteTask
DeleteTOSettled(s, c) ==
    IF c.stage = "ok"
       THEN Done([s EXCEPT !.tasksCache = <<>>], s.tasksCache # <<>>, "resolved", c.original)
       ELSE Done([s EXCEPT !.tasks = @ \o c.original], FALSE, "rejected", c.original)

\* The mutations that keep no optimistic state: return data, or throw
PlainSettled(s, c) ==
    Done(s, FALSE, IF c.stage = "ok" THEN "resolved" ELSE "rejected", c.data)

MutationSettled(h, s, c) ==
    CASE c.op = "create" /\ h \in Optimized -> CreateOptSettled(h, s, c)
      [] c.op = "update" /\ h = "TO"        -> UpdateTOSettled(s, c)
      [] c.op = "delete" /\ h = "TO"        -> DeleteTOSettled(s, c)
      [] OTHER                              -> PlainSettled(s, c)

----------------------------------------------------------------------------
(* Inputs *)

Statuses == {"todo", "completed"}

CreatePayloads(h) ==
    IF h \in TaskHooks
       THEN {[status |-> "todo", assigned_to |-> User, project_id |-> "p1",
              created_by |-> OtherUser, attachment_url |-> "url"]}
       ELSE {[status |-> "todo", assigned_to |-> None, project_id |-> None,
              created_by |-> OtherUser, attachment_url |-> None]}

UpdatePayloads(h) ==
    IF h \in TaskHooks
       THEN {[status |-> "completed", attachment_url |-> "url"]}
       ELSE {[status |-> "completed"]}

Projects(h) == IF h \in TaskHooks THEN {None, "p1"} ELSE {None}

\* Ids a caller passes to update and delete: one that is in the table from
\* the start, the temporary ids, and one that never exists
Targets == {SrvId(2), AbsentId} \cup {id \in Ids(tasks) : id.k = "temp"}

----------------------------------------------------------------------------
(* Actions *)

\* Date.now() when a handler reads it: the instant of the previous reading,
\* or a later one
Instants == {t \in {now, now + 1} : t <= MaxNow}

\* refreshTasks(projectId) / refreshProjects()
Refresh ==
    /\ nOps < MaxOps
    /\ \E project \in Projects(hook), t \in Instants :
          /\ Commit(StartFetch(hook, Cur, project, t))
          /\ now' = t
          /\ last' = Step("call", "fetch", tasks, AbsentId, <<>>, "pending", None,
                          TRUE, Len(tasks), 0)
    /\ nOps' = nOps + 1
    /\ UNCHANGED <<hook, db, users, events, nextId, user, sideVars, channel>>

Called(kind, id, r) ==
    LET c == CHOOSE x \in r.cs.calls : x \notin calls
    IN  Step("call", kind, tasks, id, r.rows, r.outcome, r.why, r.outcome = "pending",
             IF r.outcome = "pending" THEN c.preLen ELSE Len(tasks),
             IF r.outcome = "pending" THEN c.idx ELSE 0)

Create ==
    /\ nOps < MaxOps
    /\ \E payload \in CreatePayloads(hook), t \in Instants :
          LET r == CreateCall(hook, Cur, payload, t)
          IN  /\ r.outcome = "pending" \/ t = now
              /\ Commit(r.cs)
              /\ now' = t
              /\ last' = Called("create", TempId(t), r)
    /\ nOps' = nOps + 1
    /\ UNCHANGED <<hook, db, users, events, nextId, user, sideVars, channel>>

Update ==
    /\ nOps < MaxOps
    /\ \E id \in Targets, updates \in UpdatePayloads(hook), t \in Instants :
          LET r == UpdateCall(hook, Cur, id, updates, t)
          IN  /\ r.outcome = "pending" \/ t = now
              /\ Commit(r.cs)
              /\ now' = t
              /\ last' = Called("update", id, r)
    /\ nOps' = nOps + 1
    /\ UNCHANGED <<hook, db, users, events, nextId, user, sideVars, channel>>

Delete ==
    /\ nOps < MaxOps
    /\ \E id \in Targets :
          LET r == DeleteCall(hook, Cur, id, now)
          IN  /\ Commit(r.cs)
              /\ last' = Called("delete", id, r)
    /\ nOps' = nOps + 1
    /\ UNCHANGED <<hook, db, users, events, nextId, now, user, sideVars, channel>>

\* The state a handler leaves, with the effects of its render: the clock is
\* read, at instant t, only when the fetch effect re-runs
Rerun(r, t) ==
    /\ Commit(Effects(hook, r.cs, r.changed, t))
    /\ now' = IF hook \in Optimized /\ r.changed THEN t ELSE now
    /\ (hook \in Optimized /\ r.changed) \/ t = now

Answer(c, stage, data) == [c EXCEPT !.stage = stage, !.data = data]

\* The backend serves one request, or fails it
ServerHandle ==
    \E c \in calls, ok \in BOOLEAN :
       /\ c.stage = "sent"
       /\ CASE ~ok \/ (c.op = "update" /\ ~Has(db, c.id)) ->
                 /\ calls' = (calls \ {c}) \cup {Answer(c, "err", <<>>)}
                 /\ UNCHANGED <<db, events, nextId>>
            [] ok /\ c.op = "fetch" ->
                 /\ calls' = (calls \ {c}) \cup {Answer(c, "ok", ByProject(db, c.project))}
                 /\ UNCHANGED <<db, events, nextId>>
            [] ok /\ c.op = "role" ->
                 /\ calls' = (calls \ {c}) \cup {Answer(c, "ok", <<>>)}
                 /\ UNCHANGED <<db, events, nextId>>
            [] ok /\ c.op = "create" ->
                 /\ ServerInsert(c.sent[1])
                 /\ calls' = (calls \ {c}) \cup {Answer(c, "ok", <<db'[1]>>)}
            [] ok /\ c.op = "update" /\ Has(db, c.id) ->
                 /\ ServerUpdate(c.id, c.sent[1])
                 /\ calls' = (calls \ {c}) \cup {Answer(c, "ok", <<Find(db', c.id)>>)}
            [] ok /\ c.op = "delete" ->
                 /\ ServerDelete(c.id)
                 /\ calls' = (calls \ {c}) \cup {Answer(c, "ok", <<>>)}
       /\ UNCHANGED <<hook, tasks, loading, error, userRole, userCache, tasksCache,
                      users, now, nOps, last, user, sideVars, channel>>

\* The continuation of an awaited request runs
Settle ==
    \E c \in calls, t \in Instants :
       /\ c.stage # "sent"
       /\ LET s == DropCall(Cur, c)
          IN  IF c.op \in {"fetch", "role"}
                 THEN \E selErr, insErr \in BOOLEAN :
                         LET r == IF c.op = "fetch"
                                     THEN SettleFetch(hook, s, users[c.user], c, selErr, insErr)
                                     ELSE SettleRole(hook, s, users[c.user], c, insErr)
                         IN  /\ Rerun(r, t)
                             /\ users' = [users EXCEPT ![c.user] = r.users]
                             /\ last' = Step("settle", c.op, tasks, c.id, c.data,
                                             IF c.stage = "ok" THEN "resolved" ELSE "failed",
                                             IF ProvisionFailed(hook, users[c.user], c,
                                                                selErr, insErr)
                                                THEN "setup" ELSE None,
                                             TRUE, c.preLen, c.idx)
                 ELSE LET r == MutationSettled(hook, s, c)
                      IN  /\ Rerun(r, t)
                          /\ users' = users
                          /\ last' = Step("settle", c.op, tasks, c.id, r.rows, r.outcome,
                                          IF c.stage = "ok" THEN None ELSE "remote",
                                          TRUE, c.preLen, c.idx)
       /\ UNCHANGED <<hook, db, events, nextId, nOps, user, sideVars, channel>>

\* The realtime channel delivers the next change event
Deliver ==
    /\ user # None
    /\ events # <<>>
    /\ \E t \in Instants :
       LET ev == Head(events)
           r == Ingest(hook, Cur, ev)
       IN  /\ Rerun(r, t)
           /\ last' = Step("deliver", ev.type, tasks, ev.row.id, <<ev.row>>, None, None,
                           FALSE, Len(tasks), IndexOf(tasks, ev.row.id))
    /\ events' = Tail(events)
    /\ UNCHANGED <<hook, db, users, nextId, nOps, user, sideVars, channel>>

\* Another client changes the table
RemoteChange ==
    /\ nOps < MaxOps
    /\ \/ ServerInsert([created_by |-> OtherUser])
       \/ \E id \in Ids(db) \cap {SrvId(2)} :
             ServerUpdate(id, [status |-> "completed", updated_at |-> SrvTime])
       \/ \E id \in Ids(db) \cap {SrvId(2)} : ServerDelete(id)
    /\ nOps' = nOps + 1
    /\ UNCHANGED <<hook, tasks, loading, error, userRole, userCache, tasksCache, calls,
                   users, now, last, user, sideVars, channel>>

Next ==
    \/ Refresh
    \/ Create
    \/ Update
    \/ Delete
    \/ ServerHandle
    \/ Settle
    \/ Deliver
    \/ RemoteChange

\* What the hooks' effects do when useAuth().user changes to id: the optimized
\* hooks' fetch callback is re-created and their initial-fetch effect runs it;
\* the realtime hooks' mount effect fetches role and collection, or clears both
IdentityEffects(h, s, id, t) ==
    LET s0 == [s EXCEPT !.user = id]
    IN  IF h \in Optimized THEN StartFetch(h, s0, None, t)
        ELSE IF id = None
                THEN [s0 EXCEPT !.tasks = <<>>, !.userRole = None, !.loading = FALSE]
                ELSE StartFetch(h, StartRole(s0, t), None, t)

\* Sign-out, sign-in, or a switch to another identity.  The subscription
\* effect removes the channel and, for an identity, opens a new one.
IdentityChange ==
    /\ nOps < MaxOps
    /\ \E id \in (Identities \cup {None}) \ {user}, t \in Instants :
          /\ (hook \in Optimized /\ id # None) \/ t = now
          /\ Commit(IdentityEffects(hook, Cur, id, t))
          /\ user' = id
          /\ now' = t
          /\ channel' = SubscriptionEffect(channel, id)
    /\ events' = <<>>
    /\ nOps' = nOps + 1
    /\ last' = Step("identity", None, tasks, AbsentId, <<>>, None, None, FALSE, Len(tasks), 0)
    /\ UNCHANGED <<hook, db, users, nextId, sideVars>>

\* The hook's steps in a session whose identity may change
NextSession ==
    \/ Next
    \/ IdentityChange

\* The component using the hook unmounts: React runs the effects' cleanups
Unmount ==
    /\ channel.mounted
    /\ channel' = [Cleanup(channel) EXCEPT !.mounted = FALSE]
    /\ last' = Step("unmount", None, tasks, AbsentId, <<>>, None, None, FALSE, Len(tasks), 0)
    /\ UNCHANGED <<hook, tasks, loading, error, userRole, userCache, tasksCache, calls,
                   db, events, nextId, now, users, nOps, user, sideVars>>

\* The life of one hook instance, from mount to unmount
NextLifecycle ==
    \/ channel.mounted /\ NextSession
    \/ Unmount

\* A hook of hs is mounted for a user that has no users row yet
InitNoRow(hs) ==
    /\ hook \in hs
    /\ Starts(MountEffects(hook))
    /\ db = InitDb(hook)
    /\ user = User
    /\ users \in {f \in [Identities -> Roles \cup {None}] : f[User] = None}
    /\ SideIdle
    /\ channel = SubscriptionEffect([NoChannel EXCEPT !.mounted = TRUE], User)
    /\ events = <<>>
    /\ nextId = 3
    /\ now = 0
    /\ nOps = 0
    /\ last = Step("mount", None, <<>>, AbsentId, <<>>, None, None, FALSE, 0, 0)

Init == InitFor(Hooks, Roles)

Spec == Init /\ [][Next]_vars

SpecTO == InitFor({"TO"}, Roles) /\ [][Next]_vars
SpecPO == InitFor({"PO"}, Roles) /\ [][Next]_vars
SpecTR == InitFor({"TR"}, Roles) /\ [][Next]_vars
SpecPR == InitFor({"PR"}, Roles) /\ [][Next]_vars

SpecNoRowPO == InitNoRow({"PO"}) /\ [][Next]_vars

SpecLifecycle == InitFor({"TO"}, Roles) /\ [][NextLifecycle]_vars

\* Fetches numbered in the order they are requested (history: the number is
\* written to the request's idx, which no handler reads)
Numbered(s, k) ==
    [s EXCEPT !.calls = {IF c \in calls THEN c ELSE [c EXCEPT !.idx = k] : c \in @}]

\* refreshTasks(projectId), the k-th fetch requested after the mount's
RefreshNth ==
    /\ nOps < MaxOps
    /\ \E project \in Projects(hook) :
          /\ Commit(Numbered(StartFetch(hook, Cur, project, now), nOps + 1))
          /\ last' = Step("call", "fetch", tasks, AbsentId, <<>>, "pending", None,
                          TRUE, Len(tasks), nOps + 1)
    /\ nOps' = nOps + 1
    /\ UNCHANGED <<hook, db, users, events, nextId, now, user, sideVars, channel>>

NextFetch ==
    \/ RefreshNth
    \/ ServerHandle
    \/ Settle

SpecFetchTR == InitFor({"TR"}, Roles) /\ [][NextFetch]_vars

SpecSessionTO == InitFor({"TO"}, Roles) /\ [][NextSession]_vars

----------------------------------------------------------------------------
(* utils/permissions: pure functions of a role (admin, member, null, or     *)
(* undefined), a resource and the requester's id.  An optional resource is  *)
(* <<>> when it is not given and <<resource>> when it is.                   *)

isAdmin(role) == role = "admin"
isMember(role) == role = "member"

canCreateProject(role) == isAdmin(role)
\* role !== null
canViewProject(role) == role # None
canEditProject(role) == isAdmin(role)
canDeleteProject(role) == isAdmin(role)
canCreateTask(role) == isAdmin(role)
canViewTasks(role) == role # None

\* !!x for an id
Truthy(x) == x \notin {None, Undefined, ""}

\* A canEditTask that lets a member edit any task
canEditTaskAnyMember(role, task, userId) == isAdmin(role) \/ isMember(role)

canEditTask(role, task, userId) ==
    \/ isAdmin(role)
    \/ isMember(role) /\ Truthy(userId) /\ task.assigned_to = userId

canDeleteTask(role) == isAdmin(role)
canAssignTasks(role) == isAdmin(role)
canChangeTaskStatus(role, task, userId) == canEditTask(role, task, userId)

PermissionCheck(allowed, reason) == [allowed |-> allowed, reason |-> reason]

\* A result that carries the denial text also when access is allowed
VerdictKeepsReason(can, text) == PermissionCheck(can, text)

\* { allowed: can, reason: !can ? text : undefined }
Verdict(can, text) == PermissionCheck(can, IF ~can THEN text ELSE Undefined)

checkProjectAccess(action, role, project) ==
    CASE action = "create" -> Verdict(canCreateProject(role), "Only admins can create projects")
      [] action = "view" ->
           Verdict(canViewProject(role), "You must be logged in to view projects")
      [] action = "edit" ->
           IF project = <<>> THEN PermissionCheck(FALSE, "Project not found")
           ELSE Verdict(canEditProject(role), "Only admins can edit projects")
      [] action = "delete" ->
           IF project = <<>> THEN PermissionCheck(FALSE, "Project not found")
           ELSE Verdict(canDeleteProject(role), "Only admins can delete projects")
      [] OTHER -> PermissionCheck(FALSE, "Unknown action")

checkTaskAccess(action, role, task, userId) ==
    CASE action = "create" -> Verdict(canCreateTask(role), "Only admins can create tasks")
      [] action = "view" -> Verdict(canViewTasks(role), "You must be logged in to view tasks")
      [] action = "edit" ->
           IF task = <<>> THEN PermissionCheck(FALSE, "Task not found")
           ELSE Verdict(canEditTask(role, task[1], userId),
                        IF isAdmin(role) THEN "Unknown error"
                                             ELSE "You can only edit tasks assigned to you")
      [] action = "delete" ->
           IF task = <<>> THEN PermissionCheck(FALSE, "Task not found")
           ELSE Verdict(canDeleteTask(role), "Only admins can delete tasks")
      [] action = "assign" -> Verdict(canAssignTasks(role), "Only admins can assign tasks")
      [] OTHER -> PermissionCheck(FALSE, "Unknown action")

----------------------------------------------------------------------------
(* useUserProfile and useAuthorization *)

ProfileCall(id) == [user |-> id, stage |-> "select", answer |-> None]

\* useUserProfile.fetchProfile up to its first await
FetchProfile(p, cs, id) ==
    IF id = None THEN [profile |-> [p EXCEPT !.loading = FALSE], calls |-> cs]
                 ELSE [profile |-> p, calls |-> cs \cup {ProfileCall(id)}]

\* const userRole = profile?.role as Role | null
AuthRole == IF profile.data = <<>> THEN Undefined ELSE profile.data[1].role

\* user?.id
AuthUserId == IF user = None THEN Undefined ELSE user

\* projectPermissions, taskPermissions and getTaskPermissions(task)
Capabilities(role, task, userId) ==
    [createProject |-> canCreateProject(role), viewProject |-> canViewProject(role),
     editProject |-> canEditProject(role), deleteProject |-> canDeleteProject(role),
     createTask |-> canCreateTask(role), viewTasks |-> canViewTasks(role),
     deleteTask |-> canDeleteTask(role), assignTasks |-> canAssignTasks(role),
     editTask |-> canEditTask(role, task, userId),
     changeStatus |-> canChangeTaskStatus(role, task, userId)]

ProjectActions == {"create", "view", "edit", "delete"}
TaskActions == {"create", "view", "edit", "delete", "assign"}
RoleArgs == Roles \cup {None, Undefined}
UserIdArgs == Identities \cup {Undefined}
UnassignedTask == Row(SrvId(3), "todo", Undefined, "p1", OtherUser, SrvTime, None)
TaskArgs == {<<>>, <<TaskRow1>>, <<TaskRow2>>, <<UnassignedTask>>}
ProjectArgs == {<<>>, <<ProjectRow1>>}

\* The record of a query, kept until the profile hook or the session takes
\* its next step
Access(fn, action, role, resource, userId, result) ==
    [fn |-> fn, action |-> action, role |-> role, resource |-> resource,
     userId |-> userId, result |-> result]

authFrame == <<hookVars, notifications, noteSeq, provisioned>>

\* checkProjectAccess(action, userRole, project?)
CheckProject ==
    /\ access = NoAccess
    /\ \E action \in ProjectActions, role \in RoleArgs, project \in ProjectArgs :
          access' = Access("checkProjectAccess", action, role, project, Undefined,
                           checkProjectAccess(action, role, project))
    /\ UNCHANGED <<authFrame, users, nOps, user, profile, profileCalls>>

\* checkTaskAccess(action, userRole, task?, userId?)
CheckTask ==
    /\ access = NoAccess
    /\ \E action \in TaskActions, role \in RoleArgs, task \in TaskArgs, userId \in UserIdArgs :
          access' = Access("checkTaskAccess", action, role, task, userId,
                           checkTaskAccess(action, role, task, userId))
    /\ UNCHANGED <<authFrame, users, nOps, user, profile, profileCalls>>

\* useAuthorization().checkProjectAccess(action, project?)
AuthorizeProject ==
    /\ access = NoAccess
    /\ \E action \in ProjectActions, project \in ProjectArgs :
          access' = Access("useAuthorization.checkProjectAccess", action, AuthRole, project, Undefined,
                           checkProjectAccess(action, AuthRole, project))
    /\ UNCHANGED <<authFrame, users, nOps, user, profile, profileCalls>>

\* useAuthorization().checkTaskAccess(action, task?)
AuthorizeTask ==
    /\ access = NoAccess
    /\ \E action \in TaskActions, task \in TaskArgs :
          access' = Access("useAuthorization.checkTaskAccess", action, AuthRole, task, AuthUserId,
                           checkTaskAccess(action, AuthRole, task, AuthUserId))
    /\ UNCHANGED <<authFrame, users, nOps, user, profile, profileCalls>>

\* The session identity changes: useEffect(() => { fetchProfile(); }, [user])
SessionChange ==
    /\ nOps < MaxOps
    /\ \E id \in (Identities \cup {None}) \ {user} :
          LET r == FetchProfile(profile, profileCalls, id)
          IN  /\ user' = id
              /\ profile' = r.profile
              /\ profileCalls' = r.calls
    /\ nOps' = nOps + 1
    /\ access' = NoAccess
    /\ UNCHANGED <<authFrame, users>>

\* refetch: fetchProfile
Refetch ==
    /\ nOps < MaxOps
    /\ LET r == FetchProfile(profile, profileCalls, user)
       IN  /\ profile' = r.profile
           /\ profileCalls' = r.calls
    /\ nOps' = nOps + 1
    /\ access' = NoAccess
    /\ UNCHANGED <<authFrame, users, user>>

\* The users table serves a select or an insert of fetchProfile, or fails it
ProfileServe ==
    /\ \E c \in profileCalls, ok \in BOOLEAN :
          \/ /\ c.stage = "select"
             /\ profileCalls' = (profileCalls \ {c}) \cup
                   {[c EXCEPT !.stage = "selected",
                              !.answer = IF ~ok THEN "error"
                                         ELSE IF users[c.user] = None THEN "PGRST116"
                                         ELSE users[c.user]]}
             /\ users' = users
          \/ /\ c.stage = "insert"
             /\ IF ok /\ users[c.user] = None
                   THEN /\ users' = [users EXCEPT ![c.user] = ProvisionRole("UP")]
                        /\ profileCalls' = (profileCalls \ {c}) \cup
                              {[c EXCEPT !.stage = "inserted", !.answer = ProvisionRole("UP")]}
                   ELSE /\ users' = users
                        /\ profileCalls' = (profileCalls \ {c}) \cup
                              {[c EXCEPT !.stage = "inserted", !.answer = "error"]}
    /\ access' = NoAccess
    /\ UNCHANGED <<authFrame, nOps, user, profile>>

\* useUserProfile.fetchProfile after an await
ProfileSettle ==
    /\ \E c \in profileCalls :
          \/ /\ c.stage = "selected"
             /\ c.answer = "PGRST116"
             /\ profileCalls' = (profileCalls \ {c}) \cup
                   {[c EXCEPT !.stage = "insert", !.answer = None]}
             /\ profile' = profile
          \/ /\ c.stage = "selected"
             /\ c.answer # "PGRST116"
             /\ profileCalls' = profileCalls \ {c}
             /\ profile' = IF c.answer = "error"
                             THEN [data |-> <<>>, loading |-> FALSE, error |-> "load"]
                             ELSE [profile EXCEPT !.data = <<[id |-> c.user, role |-> c.answer]>>,
                                                  !.loading = FALSE]
          \/ /\ c.stage = "inserted"
             /\ profileCalls' = profileCalls \ {c}
             /\ profile' = IF c.answer = "error"
                             THEN [data |-> <<>>, loading |-> FALSE, error |-> "setup"]
                             ELSE [profile EXCEPT !.data = <<[id |-> c.user, role |-> c.answer]>>,
                                                  !.loading = FALSE]
    /\ access' = NoAccess
    /\ UNCHANGED <<authFrame, users, nOps, user>>

NextAuthz ==
    \/ CheckProject
    \/ CheckTask
    \/ AuthorizeProject
    \/ AuthorizeTask
    \/ SessionChange
    \/ Refetch
    \/ ProfileServe
    \/ ProfileSettle

\* No synchronization hook is mounted
HookIdle ==
    /\ hook = "TO"
    /\ Starts(Mounted)
    /\ db = <<>>
    /\ events = <<>>
    /\ nextId = 1
    /\ now = 0
    /\ last = Step("mount", None, <<>>, AbsentId, <<>>, None, None, FALSE, 0, 0)
    /\ channel = NoChannel

\* useAuthorization is mounted for a signed-in user, whose users row may be missing
InitAuthz ==
    /\ HookIdle
    /\ users \in [Identities -> Roles \cup {None}]
    /\ nOps = 0
    /\ user = User
    /\ profile = [data |-> <<>>, loading |-> TRUE, error |-> None]
    /\ profileCalls = {ProfileCall(User)}
    /\ access = NoAccess
    /\ notifications = <<>>
    /\ noteSeq = 0
    /\ provisioned = [site \in Sites |-> None]

SpecAuthz == InitAuthz /\ [][NextAuthz]_vars

\* ---------------------------------------------------------------------------
\* useTasksRealtime with its tasks loaded, asked to update tasks with payloads
\* of every shape and to say who may upload an attachment
\* ---------------------------------------------------------------------------

\* canUploadAttachment(task), with user?.id
canUploadAttachment(role, task, userId) ==
    IF role = "admin" THEN FALSE
    ELSE IF role = "member" THEN task.assigned_to = userId
    ELSE FALSE

UpdateFields == {"status", "attachment_url", "assigned_to", "project_id"}

UpdateValue(f) ==
    CASE f = "status" -> "completed"
      [] f = "attachment_url" -> "url"
      [] f = "assigned_to" -> OtherUser
      [] OTHER -> "p2"

\* Partial<Task>: any subset of the fields
PartialTasks == {[f \in fs |-> UpdateValue(f)] : fs \in SUBSET UpdateFields}

\* updateTask(taskId, updates) with updates of any shape
UpdateAny ==
    /\ nOps < MaxOps
    /\ \E id \in {SrvId(1), SrvId(2), AbsentId}, updates \in PartialTasks :
          LET r == UpdateCall(hook, Cur, id, updates, now)
          IN  /\ Commit(r.cs)
              /\ last' = [Called("update", id, r) EXCEPT !.rows = <<updates>>]
    /\ nOps' = nOps + 1
    /\ access' = NoAccess
    /\ UNCHANGED <<hook, db, users, events, nextId, now, user, channel,
                   profile, profileCalls, notifications, noteSeq, provisioned>>

\* canUploadAttachment(task)
UploadQuery ==
    /\ access = NoAccess
    /\ \E i \in DOMAIN tasks :
          access' = Access("canUploadAttachment", "upload", userRole, <<tasks[i]>>, AuthUserId,
                           canUploadAttachment(userRole, tasks[i], AuthUserId))
    /\ UNCHANGED <<hookVars, users, nOps, user,
                   profile, profileCalls, notifications, noteSeq, provisioned>>

NextAttach ==
    \/ UpdateAny
    \/ UploadQuery
    \/ ServerHandle
    \/ Settle

InitAttach ==
    /\ hook = "TR"
    /\ userRole \in Roles \cup {None}
    /\ Starts([Mounted EXCEPT !.tasks = InitDb("TR"), !.loading = FALSE,
                              !.userRole = userRole])
    /\ db = InitDb("TR")
    /\ user \in Identities
    /\ users = [id \in Identities |-> IF id = user THEN userRole ELSE None]
    /\ SideIdle
    /\ channel = SubscriptionEffect([NoChannel EXCEPT !.mounted = TRUE], user)
    /\ events = <<>>
    /\ nextId = 3
    /\ now = 0
    /\ nOps = 0
    /\ last = Step("mount", None, <<>>, AbsentId, <<>>, None, None, FALSE, 0, 0)

SpecAttach == InitAttach /\ [][NextAttach]_vars

----------------------------------------------------------------------------
(* NotificationProvider *)

\* id: `${Date.now()}-${Math.random()...}`, the random part taken to be fresh
Notification(t, n) == [id |-> [t |-> t, r |-> n], timestamp |-> t, read |-> FALSE]

\* A prepend that keeps the list uncapped
addNotificationNoCap(prev, n) == <<n>> \o prev

\* [newNotification, ...prev].slice(0, 50)
addNotification(prev, n) ==
    LET all == <<n>> \o prev
    IN  SubSeq(all, 1, IF Len(all) < MaxKept THEN Len(all) ELSE MaxKept)

markAsRead(prev, id) ==
    [i \in DOMAIN prev |-> IF prev[i].id = id THEN [prev[i] EXCEPT !.read = TRUE] ELSE prev[i]]

markAllAsRead(prev) == [i \in DOMAIN prev |-> [prev[i] EXCEPT !.read = TRUE]]

removeNotification(prev, id) == SelectSeq(prev, LAMBDA n : n.id # id)

\* Ids a caller passes: the newest record's, the oldest record's, an unknown one
NoteTargets ==
    {[t |-> 0, r |-> 0]} \cup
    (IF notifications = <<>> THEN {}
     ELSE {notifications[1].id, notifications[Len(notifications)].id})

noteFrame == <<hookVars, users, user, authVars, provisioned>>

AddNotification ==
    /\ noteSeq < MaxNotes
    /\ \E t \in {x \in {now, now + 1} : x <= MaxNow} :
          /\ notifications' = addNotification(notifications, Notification(t, noteSeq + 1))
          /\ now' = t
    /\ noteSeq' = noteSeq + 1
    /\ UNCHANGED <<hook, tasks, loading, error, userRole, userCache, tasksCache, calls,
                   db, events, nextId, last, users, user, authVars, provisioned, nOps,
                   channel>>

MarkAsRead ==
    /\ nOps < MaxEdits
    /\ \E id \in NoteTargets : notifications' = markAsRead(notifications, id)
    /\ nOps' = nOps + 1
    /\ UNCHANGED <<noteFrame, noteSeq>>

MarkAllAsRead ==
    /\ nOps < MaxEdits
    /\ notifications' = markAllAsRead(notifications)
    /\ nOps' = nOps + 1
    /\ UNCHANGED <<noteFrame, noteSeq>>

RemoveNotification ==
    /\ nOps < MaxEdits
    /\ \E id \in NoteTargets : notifications' = removeNotification(notifications, id)
    /\ nOps' = nOps + 1
    /\ UNCHANGED <<noteFrame, noteSeq>>

ClearNotifications ==
    /\ nOps < MaxEdits
    /\ notifications' = <<>>
    /\ nOps' = nOps + 1
    /\ UNCHANGED <<noteFrame, noteSeq>>

NextNotify ==
    \/ AddNotification
    \/ MarkAsRead
    \/ MarkAllAsRead
    \/ RemoveNotification
    \/ ClearNotifications

InitNotify ==
    /\ HookIdle
    /\ users = [id \in Identities |-> None]
    /\ nOps = 0
    /\ user = User
    /\ SideIdle

SpecNotify == InitNotify /\ [][NextNotify]_vars

\* ---------------------------------------------------------------------------
\* Role provisioning, call site by call site.  Every call site selects the
\* identity's users row with .single() and, on PGRST116 (no row), inserts one.
\* The call sites are run side by side against the same users table, which is
\* left as it was, so that what each of them writes can be compared.
\* ---------------------------------------------------------------------------

provFrame == <<hookVars, users, user, nOps, authVars, notifications, noteSeq>>

\* No identity has a role record
TableEmpty == \A id \in Identities : users[id] = None

\* The select of the row of the signed-in identity at one call site
ProvisionSelect ==
    /\ \E site \in Sites, answer \in {"row", "error"} :
          /\ provisioned[site] = None
          /\ provisioned' = [provisioned EXCEPT ![site] =
                 IF answer = "error" THEN "error"
                 ELSE IF users[user] = None THEN "PGRST116" ELSE "found"]
    /\ UNCHANGED provFrame

\* The insert that follows PGRST116: the role is the literal of the call site
ProvisionInsert ==
    /\ \E site \in Sites, ok \in BOOLEAN :
          /\ provisioned[site] = "PGRST116"
          /\ provisioned' = [provisioned EXCEPT ![site] =
                 IF ok THEN ProvisionRole(site) ELSE "failed"]
    /\ UNCHANGED provFrame

NextProv ==
    \/ ProvisionSelect
    \/ ProvisionInsert

InitProv ==
    /\ HookIdle
    /\ users \in [Identities -> Roles \cup {None}]
    /\ nOps = 0
    /\ user \in Identities
    /\ SideIdle

SpecProv == InitProv /\ [][NextProv]_vars

\* ---------------------------------------------------------------------------
\* The call sites of one session looking up the role of the same identity
\* concurrently, against the one users table (id is its primary key).  No
\* request fails for a reason of its own: an insert fails only on a duplicate.
\* ---------------------------------------------------------------------------

\* The select of one call site is served
RaceSelect ==
    /\ \E site \in Sites :
          /\ provisioned[site] = None
          /\ provisioned' = [provisioned EXCEPT ![site] =
                 IF users[user] = None THEN "PGRST116" ELSE "found"]
    /\ UNCHANGED provFrame

\* The insert of a call site that was answered PGRST116 is served
RaceInsert ==
    /\ \E site \in Sites :
          /\ provisioned[site] = "PGRST116"
          /\ IF users[user] = None
                THEN /\ users' = [users EXCEPT ![user] = ProvisionRole(site)]
                     /\ provisioned' = [provisioned EXCEPT ![site] = ProvisionRole(site)]
                ELSE /\ users' = users
                     /\ provisioned' = [provisioned EXCEPT ![site] = "failed"]
    /\ UNCHANGED <<hookVars, user, nOps, authVars, notifications, noteSeq>>

NextRace ==
    \/ RaceSelect
    \/ RaceInsert

InitRace ==
    /\ HookIdle
    /\ user \in Identities
    /\ users \in {f \in [Identities -> Roles \cup {None}] : f[user] = None}
    /\ nOps = 0
    /\ SideIdle

SpecRace == InitRace /\ [][NextRace]_vars

----------------------------------------------------------------------------
(* Properties.  `last` describes the last step the hook took: the backend's *)
(* own steps change neither `last` nor the collection.                      *)

Settled(kind, outcome) == last.op = "settle" /\ last.kind = kind /\ last.outcome = outcome
Delivered(type) == last.op = "deliver" /\ last.kind = type
Mutations == {"create", "update", "delete"}

\* The indices of s whose entity does not carry id, in order
Kept(s, id) == {i \in DOMAIN s : s[i].id # id}
Nth(S, k) == CHOOSE i \in S : Cardinality({j \in S : j <= i}) = k

\* C1: the collection never holds two entities with the same id.
C1_NoDuplicateIds == NoDup(tasks)

\* C2: when a create is rejected and the collection just before the rejection
\* is the collection the call found plus its optimistic entity, then after the
\* rollback no entity carries the call's temporary id and the collection is as
\* long as the call found it.
C2_CreateRollback ==
    (/\ hook \in Optimized
     /\ Settled("create", "rejected")
     /\ Len(last.pre) = last.preLen + 1
     /\ last.pre[1] = last.rows[1])
    => (~Has(tasks, last.id) /\ Len(tasks) = last.preLen)

C4_DeleteRollbackIndex ==
    (hook = "TO" /\ Settled("delete", "rejected"))
    => /\ last.idx \in DOMAIN tasks
       /\ tasks[last.idx] = last.rows[1]
       /\ FilterOut(tasks, last.id) = FilterOut(last.pre, last.id)

\* C5: a realtime INSERT for an id the collection already holds changes nothing;
\* an INSERT for an absent id prepends the entity.
C5_InsertIngestion ==
    Delivered("INSERT")
    => tasks = IF Has(last.pre, last.id) THEN last.pre ELSE <<last.rows[1]>> \o last.pre

\* C6: when a create is confirmed with server entity S, the collection holds
\* exactly one entity with S's id, at the position the temporary entry held,
\* and no entity with the call's temporary id.
C6_CreateConfirmed ==
    (hook \in Optimized /\ Settled("create", "resolved"))
    => /\ Count(tasks, last.rows[1].id) = 1
       /\ ~Has(tasks, last.id)
       /\ Has(last.pre, last.id)
       /\ tasks[IndexOf(last.pre, last.id)] = last.rows[1]

\* C7: a realtime DELETE for id X removes the entities with id X and nothing
\* else, keeping the order of the rest; applying the same event again changes
\* nothing.
C7_DeleteIngestion ==
    Delivered("DELETE")
    => /\ ~Has(tasks, last.id)
       /\ Len(tasks) = Cardinality(Kept(last.pre, last.id))
       /\ \A k \in DOMAIN tasks : tasks[k] = last.pre[Nth(Kept(last.pre, last.id), k)]
       /\ OnEvent(tasks, Event("DELETE", last.rows[1])) = tasks

C7_Witness ==
    /\ Delivered("DELETE")
    /\ Has(last.pre, last.id)
    /\ Len(tasks) >= 1
    /\ Len(tasks) < Len(last.pre)

\* C8: when a fetch fails, the collection shown before is left as it was and an
\* error message is set.
C8_FetchFailureKeeps ==
    Settled("fetch", "failed") => (tasks = last.pre /\ error # None)

\* C9: an update or delete for an id that is not in the collection is rejected
\* at once as not found, changes nothing and issues no remote request.
C9_AbsentIdNotFound ==
    (last.op = "call" /\ last.kind \in {"update", "delete"} /\ ~Has(last.pre, last.id))
    => /\ last.outcome = "rejected"
       /\ last.why = "notfound"
       /\ ~last.sent
       /\ tasks = last.pre

\* C10: a create, update or delete whose remote request failed rejects to its
\* caller, with the optimistic change rolled back: no entity carries the
\* temporary id, the updated entities equal the snapshot, the deleted entity is
\* in the collection again.
C10_FailureRejects ==
    (last.op = "settle" /\ last.kind \in Mutations /\ last.why = "remote")
    => /\ last.outcome = "rejected"
       /\ (hook \in Optimized /\ last.kind = "create") => ~Has(tasks, last.id)
       /\ (hook = "TO" /\ last.kind = "update")
             => \A i \in DOMAIN tasks : tasks[i].id = last.id => tasks[i] = last.rows[1]
       /\ (hook = "TO" /\ last.kind = "delete")
             => \E i \in DOMAIN tasks : tasks[i] = last.rows[1]
       /\ hook \notin Optimized => tasks = last.pre

C10_Witness ==
    /\ last.op = "settle"
    /\ last.kind = "create"
    /\ last.why = "remote"
    /\ last.outcome = "rejected"
    /\ hook \in Optimized
    /\ Has(last.pre, last.id)
    /\ ~Has(tasks, last.id)

TaskQueries == {"checkTaskAccess", "useAuthorization.checkTaskAccess"}
ProjectQueries == {"checkProjectAccess", "useAuthorization.checkProjectAccess"}
Asked == access.fn # None

\* The capability matrix: admin everything; member view, and edit of a task
\* assigned to the requester
Matrix(role, action, ownTask) ==
    role = "admin" \/ (role = "member" /\ (action = "view" \/ (action = "edit" /\ ownTask)))

\* C11: for a role of admin or member, a given resource and requester,
\* checkProjectAccess and checkTaskAccess answer allowed exactly as the
\* capability matrix says.
C11_PermissionMatrix ==
    (/\ Asked
     /\ access.role \in Roles
     /\ access.action \in {"edit", "delete"} => access.resource # <<>>
     /\ access.fn \in TaskQueries => access.userId \in Identities)
    => access.result.allowed =
          Matrix(access.role, access.action,
                 /\ access.fn \in TaskQueries
                 /\ access.resource # <<>>
                 /\ access.resource[1].assigned_to = access.userId)

C11_Witness ==
    /\ Asked
    /\ access.fn = "checkTaskAccess"
    /\ access.role = "member"
    /\ access.action = "edit"
    /\ access.resource = <<TaskRow1>>
    /\ access.userId = User
    /\ access.result.allowed

\* C12: a member asking to edit a task assigned to someone else is denied with
\* the reason 'You can only edit tasks assigned to you'; and whatever the
\* action and role, the reason is undefined when access is allowed and a
\* non-empty string when it is denied.
C12_DenialReasons ==
    Asked
    => /\ access.result.allowed => access.result.reason = Undefined
       /\ ~access.result.allowed => access.result.reason \notin {Undefined, None, ""}
       /\ (/\ access.fn \in TaskQueries
           /\ access.action = "edit"
           /\ access.role = "member"
           /\ access.resource # <<>>
           /\ access.userId \in Identities
           /\ access.resource[1].assigned_to # access.userId)
          => access.result = PermissionCheck(FALSE, "You can only edit tasks assigned to you")

C12_Witness ==
    /\ Asked
    /\ access.fn = "checkTaskAccess"
    /\ access.action = "edit"
    /\ access.role = "member"
    /\ access.resource = <<TaskRow2>>
    /\ access.userId = User
    /\ access.result = PermissionCheck(FALSE, "You can only edit tasks assigned to you")

AllFalse(caps) == \A f \in DOMAIN caps : ~caps[f]

\* C13: while no role is resolved for the session (signed out, profile not
\* loaded, or profile setup failed), every capability of the permission
\* functions and of useAuthorization is false.
C13_NoRoleNoCapability ==
    (user = None \/ profile.data = <<>>)
    => \A task \in TaskArgs \ {<<>>} :
          /\ AllFalse(Capabilities(None, task[1], AuthUserId))
          /\ AllFalse(Capabilities(AuthRole, task[1], AuthUserId))

NewestFirst(s) ==
    \A i, j \in DOMAIN s : i < j => (s[i].timestamp >= s[j].timestamp /\ s[i].id.r > s[j].id.r)

\* C14: the notification list always holds at most 50 records, newest first;
\* adding a record to a list of 50 puts the new record first and drops the
\* oldest record, the last one, and no other.
C14_NotificationCap ==
    /\ [](Len(notifications) <= MaxKept /\ NewestFirst(notifications))
    /\ [][(noteSeq' # noteSeq /\ Len(notifications) = MaxKept)
            => /\ Len(notifications') = MaxKept
               /\ notifications'[1].id.r = noteSeq'
               /\ \A i \in 1..(MaxKept - 1) : notifications'[i + 1] = notifications[i]]_vars

C14_Witness ==
    /\ Len(notifications) = MaxKept
    /\ noteSeq > MaxKept
    /\ notifications[1].id.r = noteSeq
    /\ \E i \in DOMAIN notifications : notifications[i].read

\* C15: a realtime UPDATE for id X puts the event's entity where an entity
\* with id X was and leaves every other entity and the order as they were; when
\* no entity has id X the collection is unchanged.
C15_UpdateIngestion ==
    Delivered("UPDATE")
    => /\ Len(tasks) = Len(last.pre)
       /\ \A i \in DOMAIN tasks :
             tasks[i] = IF last.pre[i].id = last.id THEN last.rows[1] ELSE last.pre[i]
       /\ ~Has(last.pre, last.id) => tasks = last.pre

C15_Witness ==
    /\ Delivered("UPDATE")
    /\ Len(tasks) >= 2
    /\ \E i \in DOMAIN tasks : last.pre[i].id = last.id /\ tasks[i] # last.pre[i]
    /\ \E i \in DOMAIN tasks : last.pre[i].id # last.id

C15_WitnessAbsent ==
    /\ Delivered("UPDATE")
    /\ tasks # <<>>
    /\ ~Has(last.pre, last.id)

\* The capability a call needs: admin for create and delete and for a project
\* update; for a task update admin, or member with the task assigned to the
\* session user.
Capable(kind, role, coll, id) ==
    \/ role = "admin"
    \/ /\ kind = "update"
       /\ hook \in TaskHooks
       /\ role = "member"
       /\ Has(coll, id)
       /\ Find(coll, id).assigned_to = user

\* C18: in every hook a create, update or delete called while the role lacks
\* the capability throws and issues no remote request.
C18_GuardedMutations ==
    (/\ last.op = "call"
     /\ last.kind \in Mutations
     /\ ~Capable(last.kind, userRole, last.pre, last.id))
    => (last.outcome = "rejected" /\ ~last.sent)

\* C16: once the hook has nothing in flight after an identity change, the role
\* it exposes is the one recorded for the current identity, never one obtained
\* for a previous identity; signed out, it exposes none.
C16_RoleOfCurrentIdentity ==
    (calls = {} /\ userRole # None) => (user # None /\ userRole = users[user])

\* C17: a create, update or delete that settles after the user signed out
\* does not modify the collection.
C17_SettleAfterSignOut ==
    (last.op = "settle" /\ last.kind \in Mutations /\ user = None) => tasks = last.pre

\* C19: an identity without a role record is provisioned as admin when the
\* users table is empty and as member when a role record already exists.
C19_FirstAdminThenMember ==
    \A site \in Sites :
        provisioned[site] \in Roles =>
            provisioned[site] = (IF TableEmpty THEN "admin" ELSE "member")

\* C20: for the same identity and the same users table, any two call sites
\* that create the role record create it with the same role.
C20_SameRoleAtEverySite ==
    \A a, b \in Sites :
        (provisioned[a] \in Roles /\ provisioned[b] \in Roles) =>
            provisioned[a] = provisioned[b]

\* C21: when the insert of the users row of a not-yet-provisioned identity
\* fails, the hook is left with role null and a profile-setup error message.
C21_FailedProvisioning ==
    (last.op = "settle" /\ last.why = "setup")
    => (userRole = None /\ error = "profile")

\* C22: whatever created_by the payload of a create carries, the record sent to
\* the remote insert and the optimistic entity put first in the collection
\* have created_by equal to the id of the session user.
C22_CreatedBySession ==
    /\ \A c \in calls :
          c.op = "create"
          => /\ c.user # None
             /\ c.sent[1].created_by = c.user
             /\ c.opt # <<>> => c.opt[1].created_by = c.user
    /\ (last.op = "call" /\ last.kind = "create" /\ last.outcome = "pending")
       => /\ \E c \in calls : c.op = "create" /\ c.user = user
          /\ hook \in Optimized => (tasks[1] = last.rows[1] /\ tasks[1].created_by = user)

C22_Witness ==
    /\ last.op = "call"
    /\ last.kind = "create"
    /\ last.outcome = "pending"
    /\ hook \in Optimized
    /\ tasks[1].created_by = User
    /\ \A payload \in CreatePayloads(hook) : payload.created_by = OtherUser
    /\ \E c \in calls : c.op = "create" /\ c.sent[1].created_by = User

C24_OneSubscription ==
    /\ Cardinality(channel.open) <= 1
    /\ channel.open # {} <=> (channel.mounted /\ user # None)
    /\ channel.open = {channel.mine[i] : i \in DOMAIN channel.mine}

\* After a switch of identity the first channel is gone and a second one is open
C24_Witness ==
    /\ user = OtherUser
    /\ channel.mounted
    /\ channel.open = {2}

\* After sign-out, sign-in and unmount no channel is left
C24_WitnessUnmounted ==
    /\ ~channel.mounted
    /\ channel.next = 3
    /\ channel.open = {}

\* C25: the record useTasksRealtime.updateTask sends for a member holds no
\* field other than status, attachment_url and updated_at, and for an admin
\* never attachment_url, whatever the caller passed; canUploadAttachment is
\* false for an admin and true for a member exactly on tasks assigned to them.
C25_AttachmentRules ==
    /\ \A c \in calls :
          c.op = "update"
          => /\ userRole \in Roles
             /\ userRole = "member"
                   => DOMAIN c.sent[1] \subseteq {"status", "attachment_url", "updated_at"}
             /\ userRole = "admin" => "attachment_url" \notin DOMAIN c.sent[1]
    /\ (Asked /\ access.fn = "canUploadAttachment")
       => access.result = (/\ access.role = "member"
                           /\ access.resource[1].assigned_to = access.userId)

\* A member's update that carried every field is sent with the three fields only
C25_Witness ==
    /\ userRole = "member"
    /\ last.op = "call"
    /\ last.kind = "update"
    /\ last.outcome = "pending"
    /\ DOMAIN last.rows[1] = UpdateFields
    /\ \E c \in calls :
          /\ c.op = "update"
          /\ c.id = last.id
          /\ DOMAIN c.sent[1] = {"status", "attachment_url", "updated_at"}

\* C26: two creates pending at the same time carry distinct temporary ids.
C26_DistinctTempIds ==
    \A c1, c2 \in calls :
        (/\ c1.op = "create"
         /\ c2.op = "create"
         /\ c1.opt # <<>>
         /\ c2.opt # <<>>
         /\ c1.n # c2.n)
        => c1.opt[1].id # c2.opt[1].id

\* C27: when no request is pending, every change event has been delivered and
\* the last fetch did not fail, the collection holds exactly the entities of
\* the backend table, with the table's field values and no temporary id.
C27_Converged ==
    (calls = {} /\ events = <<>> /\ ~loading /\ error = None)
    => {tasks[i] : i \in DOMAIN tasks} = {db[i] : i \in DOMAIN db}

\* C28: loading is true while a fetch is in flight, and once no fetch is in
\* flight the fetch whose result was applied last is the one requested last.
C28_LatestFetchWins ==
    /\ (\E c \in calls : c.op = "fetch") => loading
    /\ (/\ last.op = "settle"
        /\ last.kind = "fetch"
        /\ \A c \in calls : c.op # "fetch")
       => last.idx = nOps

\* C29: when the call sites of one session look up the role of an identity
\* without a role record concurrently, at most one of them creates the record
\* and none of those that report a failed insert (useTasksRealtime,
\* useProjectsRealtime, useUserProfile) ends with role null and the profile
\* setup error while the record exists.
C29_ConcurrentProvisioning ==
    /\ Cardinality({site \in Sites : provisioned[site] \in Roles}) <= 1
    /\ \A site \in Sites \ Optimized : provisioned[site] = "failed" => users[user] = None

\* C30: in useTasksOptimized, when no request is pending and every change
\* event has been delivered, a tasks cache that is filled holds the entities of
\* the backend table: no fetch result that lacks an applied change is left in
\* the cache to be served to later fetches.
C30_CacheNotStale ==
    (hook = "TO" /\ calls = {} /\ events = <<>> /\ tasksCache # <<>>)
    => {tasksCache[1].data[i] : i \in DOMAIN tasksCache[1].data} = {db[i] : i \in DOMAIN db}

====
